---- MODULE Spec2Model ----
(***************************************************************************)
(* neurokit2/eog/eog_clean.py: the EOG cleaning dispatcher.                *)
(*                                                                         *)
(* One call of eog_clean() is followed statement by statement: sanitize the *)
(* input (as_vector), lower-case the method, match it against the selector *)
(* lists, run the selected preset (signal_filter or mne.filter.filter_data)*)
(* and return.  Strings that the code inspects (the method) are sequences  *)
(* of one-character strings, so that str.lower() is computed and not       *)
(* assumed.  Numeric literals that the code only forwards to a filter      *)
(* (cutoffs, bandwidths) are carried as written in the source.             *)
(***************************************************************************)
EXTENDS Integers, Sequences, FiniteSets, TLC

VARIABLES
    loaded,          \* "no" | "yes" | "ImportError": outcome of importing the module
    mneInstalled,    \* environment: can 'import mne' succeed
    pc,              \* position of the current call
    signal_in,       \* argument eog_signal as passed by the caller
    method_in,       \* argument method as passed by the caller
    sampling_rate,   \* argument sampling_rate
    eog_signal,      \* local eog_signal after line 62
    method,          \* local method (rebound at line 65)
    clean,           \* local clean
    calls,           \* filter calls made by the current call, in order
    result,          \* value returned to the caller
    error,           \* exception that left the call
    trace            \* statements executed by the current call, in order

vars == <<loaded, mneInstalled, pc, signal_in, method_in, sampling_rate,
          eog_signal, method, clean, calls, result, error, trace>>

\* ------------------------------------------------------------------ bounds

\* longest signal, and longest vector a filter hands back
MaxLen == 2

\* largest sample value
MaxSample == 1

\* ------------------------------------------------------- words (char lists)

agarwal == <<"a", "g", "a", "r", "w", "a", "l">>

agarwal2019 == agarwal \o <<"2", "0", "1", "9">>

mne == <<"m", "n", "e">>

brainstorm == <<"b", "r", "a", "i", "n", "s", "t", "o", "r", "m">>

foo == <<"f", "o", "o">>

agarwal2018 == agarwal \o <<"2", "0", "1", "8">>

mne_padded == mne \o <<" ">>

method_word == <<"m", "e", "t", "h", "o", "d">>

UpperOf ==
    [c \in {"a", "b", "e", "f", "g", "h", "i", "l", "m", "n", "o", "r", "s", "t", "w"} |->
        CASE c = "a" -> "A" [] c = "b" -> "B" [] c = "e" -> "E" [] c = "f" -> "F"
          [] c = "g" -> "G" [] c = "h" -> "H" [] c = "i" -> "I" [] c = "l" -> "L"
          [] c = "m" -> "M" [] c = "n" -> "N" [] c = "o" -> "O" [] c = "r" -> "R"
          [] c = "s" -> "S" [] c = "t" -> "T" [] c = "w" -> "W"]

upper(s) == [i \in DOMAIN s |-> IF s[i] \in DOMAIN UpperOf THEN UpperOf[s[i]] ELSE s[i]]

capitalize(s) == [i \in DOMAIN s |-> IF i = 1 THEN upper(s)[i] ELSE s[i]]

\* the method strings a caller passes: each word as written, in capitals and
\* capitalized, and the empty string
Methods ==
    UNION {{w, upper(w), capitalize(w)} :
              w \in {agarwal, agarwal2019, mne, brainstorm, foo, agarwal2018, mne_padded}}
      \cup {<<>>}

\* ------------------------------------------------------------ str.lower()

IsUpper(c) == \E l \in DOMAIN UpperOf : UpperOf[l] = c

lowerChar(c) == IF IsUpper(c) THEN CHOOSE l \in DOMAIN UpperOf : UpperOf[l] = c ELSE c

lower(s) == [i \in DOMAIN s |-> lowerChar(s[i])]

\* -------------------------------------------------------------- the values

Samples == 0 .. MaxSample

Vectors == UNION {[1 .. n -> Samples] : n \in 0 .. MaxLen}

\* a caller's eog_signal: a container that as_vector can convert or cannot
Signals == [convertible : BOOLEAN, data : Vectors]

DefaultSamplingRate == 1000

Rates == {100, DefaultSamplingRate}

\* an unbound local / no value returned
None == <<-1>>

NoError == [type |-> "None", args |-> <<>>]

\* a piece of a message: its text and the quotes around it ("", "single", "backtick")
Seg(q, t) == [quote |-> q, text |-> t]

\* the names a message puts between single quotes
Quoted(msg) == {msg[i].text : i \in {j \in DOMAIN msg : msg[j].quote = "single"}}

\* -------------------------------------------------------------- the module

\* variant: the optional package is imported with the module
ModuleImportsEager == {"pandas", "numpy", "..misc", "..signal", "mne"}

\* what the module imports when it is loaded
ModuleImports == {"pandas", "numpy", "..misc", "..signal"}

Importable(pkg) == pkg # "mne" \/ mneInstalled

\* ---------------------------------------------------------------- presets

_eog_clean_brainstorm(sig, rate) ==
    [fn |-> "signal_filter", signal |-> sig, sampling_rate |-> rate,
     params |-> [method |-> "butterworth", order |-> "4", lowcut |-> "1.5", highcut |-> "15"]]

\* variant: the low-pass cutoff of the other Butterworth preset
_eog_clean_agarwal2019_highcut15(sig, rate) ==
    [fn |-> "signal_filter", signal |-> sig, sampling_rate |-> rate,
     params |-> [method |-> "butterworth", order |-> "4", lowcut |-> "None", highcut |-> "15"]]

_eog_clean_agarwal2019(sig, rate) ==
    [fn |-> "signal_filter", signal |-> sig, sampling_rate |-> rate,
     params |-> [method |-> "butterworth", order |-> "4", lowcut |-> "None", highcut |-> "10"]]

\* variant: single-pass zero phase
_eog_clean_mne_filter_zero(sig, rate) ==
    [fn |-> "mne.filter.filter_data", signal |-> sig, sampling_rate |-> rate,
     params |-> [l_freq |-> "1", h_freq |-> "10", filter_length |-> "10s",
                 l_trans_bandwidth |-> "0.5", h_trans_bandwidth |-> "0.5",
                 phase |-> "zero", fir_window |-> "hann",
                 fir_design |-> "firwin2", verbose |-> "False"]]

_eog_clean_mne_filter(sig, rate) ==
    [fn |-> "mne.filter.filter_data", signal |-> sig, sampling_rate |-> rate,
     params |-> [l_freq |-> "1", h_freq |-> "10", filter_length |-> "10s",
                 l_trans_bandwidth |-> "0.5", h_trans_bandwidth |-> "0.5",
                 phase |-> "zero-double", fir_window |-> "hann",
                 fir_design |-> "firwin2", verbose |-> "False"]]

\* the two arguments of the ImportError raised when mne cannot be imported
MneImportErrorArgs ==
    << <<Seg("", "NeuroKit error: signal_filter(): the "), Seg("single", mne),
         Seg("", " module is required for this method to run. ")>>,
       <<Seg("", "Please install it first ("), Seg("backtick", "pip install mne"),
         Seg("", ").")>> >>

\* ------------------------------------------------------------- dispatcher

AgarwalSelectors == {agarwal, agarwal2019}

MneSelectors == {mne}

\* variant: an unknown method falls back to the default preset
SelectBranchFallback(m) ==
    IF m \in AgarwalSelectors THEN "agarwal2019"
    ELSE IF m \in MneSelectors THEN "mne"
    ELSE "agarwal2019"

SelectBranch(m) ==
    IF m \in AgarwalSelectors THEN "agarwal2019"
    ELSE IF m \in MneSelectors THEN "mne"
    ELSE "raise"

\* variant: the method is matched as given
NormalizeMethodAsGiven(m) == m

NormalizeMethod(m) == lower(m)

\* variant: the dispatcher calls the Brainstorm preset
AgarwalBranchBrainstorm(sig, rate) == _eog_clean_brainstorm(sig, rate)

\* variant: the dispatcher hands the filter the signal without its last sample
AgarwalBranchTruncated(sig, rate) ==
    _eog_clean_agarwal2019(SubSeq(sig, 1, Len(sig) - 1), rate)

AgarwalBranch(sig, rate) == _eog_clean_agarwal2019(sig, rate)

MneBranch(sig, rate) == _eog_clean_mne_filter(sig, rate)

\* variant: the message forgets the second preset
MethodErrorArgsOneOption ==
    << <<Seg("", "NeuroKit error: eog_clean(): "), Seg("single", method_word),
         Seg("", " should be "), Seg("single", agarwal2019), Seg("", ".")>> >>

MethodErrorArgs ==
    << <<Seg("", "NeuroKit error: eog_clean(): "), Seg("single", method_word),
         Seg("", " should be one of "), Seg("single", agarwal2019), Seg("", ", "),
         Seg("single", mne), Seg("", ".")>> >>

ReturnValue(c) == c

\* ----------------------------------------------------------- collaborators

\* as_vector: the dense vector of a convertible container, in order
as_vector(sig) == sig.data

\* what a filter may hand back
FilterOutputs == Vectors

\* ---------------------------------------------------------------- actions

Init ==
    /\ loaded = "no"
    /\ mneInstalled \in BOOLEAN
    /\ pc = "unloaded"
    /\ signal_in = [convertible |-> TRUE, data |-> <<>>]
    /\ method_in = agarwal2019
    /\ sampling_rate = DefaultSamplingRate
    /\ eog_signal = None
    /\ method = agarwal2019
    /\ clean = None
    /\ calls = <<>>
    /\ result = None
    /\ error = NoError
    /\ trace = <<>>

\* import of the module: its top-level imports run, nothing else
Load ==
    /\ pc = "unloaded"
    /\ IF \A pkg \in ModuleImports : Importable(pkg)
         THEN /\ loaded' = "yes"
              /\ pc' = "ready"
         ELSE /\ loaded' = "ImportError"
              /\ pc' = "unloadable"
    /\ UNCHANGED <<mneInstalled, signal_in, method_in, sampling_rate, eog_signal,
                   method, clean, calls, result, error, trace>>

\* a caller enters eog_clean(eog_signal, sampling_rate, method); the function
\* keeps nothing between calls, so one call per run covers them all
Call ==
    /\ pc = "ready"
    /\ \E s \in Signals, r \in Rates, m \in Methods :
          /\ signal_in' = s
          /\ sampling_rate' = r
          /\ method_in' = m
          /\ method' = m
    /\ eog_signal' = None
    /\ clean' = None
    /\ calls' = <<>>
    /\ result' = None
    /\ error' = NoError
    /\ trace' = <<>>
    /\ pc' = "sanitize"
    /\ UNCHANGED <<loaded, mneInstalled>>

\* variant: the method is validated before the input is converted
SanitizeAfterValidation ==
    /\ pc = "sanitize"
    /\ IF SelectBranch(lower(method)) = "raise"
         THEN /\ error' = [type |-> "ValueError", args |-> MethodErrorArgs]
              /\ trace' = trace \o <<"lower", "match">>
              /\ pc' = "raised"
              /\ UNCHANGED eog_signal
         ELSE /\ trace' = Append(trace, "as_vector")
              /\ IF signal_in.convertible
                   THEN /\ eog_signal' = as_vector(signal_in)
                        /\ pc' = "lower"
                        /\ UNCHANGED error
                   ELSE /\ error' = [type |-> "ConversionError", args |-> <<>>]
                        /\ pc' = "raised"
                        /\ UNCHANGED eog_signal
    /\ UNCHANGED <<loaded, mneInstalled, signal_in, method_in, sampling_rate,
                   method, clean, calls, result>>

\* eog_signal = as_vector(eog_signal)
Sanitize ==
    /\ pc = "sanitize"
    /\ trace' = Append(trace, "as_vector")
    /\ IF signal_in.convertible
         THEN /\ eog_signal' = as_vector(signal_in)
              /\ pc' = "lower"
              /\ UNCHANGED error
         ELSE /\ error' = [type |-> "ConversionError", args |-> <<>>]
              /\ pc' = "raised"
              /\ UNCHANGED eog_signal
    /\ UNCHANGED <<loaded, mneInstalled, signal_in, method_in, sampling_rate,
                   method, clean, calls, result>>

\* method = method.lower()
Lower ==
    /\ pc = "lower"
    /\ method' = NormalizeMethod(method)
    /\ trace' = Append(trace, "lower")
    /\ pc' = "match"
    /\ UNCHANGED <<loaded, mneInstalled, signal_in, method_in, sampling_rate,
                   eog_signal, clean, calls, result, error>>

\* if method in [...] / elif method in [...] / else: raise ValueError
Match ==
    /\ pc = "match"
    /\ trace' = Append(trace, "match")
    /\ LET b == SelectBranch(method) IN
         IF b = "raise"
           THEN /\ error' = [type |-> "ValueError", args |-> MethodErrorArgs]
                /\ pc' = "raised"
           ELSE /\ pc' = b
                /\ UNCHANGED error
    /\ UNCHANGED <<loaded, mneInstalled, signal_in, method_in, sampling_rate,
                   eog_signal, method, clean, calls, result>>

\* clean = _eog_clean_agarwal2019(eog_signal, sampling_rate=sampling_rate)
Agarwal2019 ==
    /\ pc = "agarwal2019"
    /\ \E ret \in FilterOutputs :
          /\ calls' = Append(calls, [call |-> AgarwalBranch(eog_signal, sampling_rate),
                                     ret |-> ret])
          /\ clean' = ret
    /\ trace' = Append(trace, "signal_filter")
    /\ pc' = "return"
    /\ UNCHANGED <<loaded, mneInstalled, signal_in, method_in, sampling_rate,
                   eog_signal, method, result, error>>

\* variant: without mne the call falls back to the default preset
MneImportFallback ==
    /\ pc = "mne"
    /\ trace' = Append(trace, "import mne")
    /\ pc' = IF Importable("mne") THEN "mne_filter" ELSE "agarwal2019"
    /\ UNCHANGED <<loaded, mneInstalled, signal_in, method_in, sampling_rate,
                   eog_signal, method, clean, calls, result, error>>

\* _eog_clean_mne: try: import mne / except ImportError: raise ImportError(...)
MneImport ==
    /\ pc = "mne"
    /\ trace' = Append(trace, "import mne")
    /\ IF Importable("mne")
         THEN /\ pc' = "mne_filter"
              /\ UNCHANGED error
         ELSE /\ error' = [type |-> "ImportError", args |-> MneImportErrorArgs]
              /\ pc' = "raised"
    /\ UNCHANGED <<loaded, mneInstalled, signal_in, method_in, sampling_rate,
                   eog_signal, method, clean, calls, result>>

\* _eog_clean_mne: clean = mne.filter.filter_data(...); return clean
MneFilter ==
    /\ pc = "mne_filter"
    /\ \E ret \in FilterOutputs :
          /\ calls' = Append(calls, [call |-> MneBranch(eog_signal, sampling_rate),
                                     ret |-> ret])
          /\ clean' = ret
    /\ trace' = Append(trace, "mne.filter.filter_data")
    /\ pc' = "return"
    /\ UNCHANGED <<loaded, mneInstalled, signal_in, method_in, sampling_rate,
                   eog_signal, method, result, error>>

\* return clean
Return ==
    /\ pc = "return"
    /\ result' = ReturnValue(clean)
    /\ trace' = Append(trace, "return")
    /\ pc' = "done"
    /\ UNCHANGED <<loaded, mneInstalled, signal_in, method_in, sampling_rate,
                   eog_signal, method, clean, calls, error>>

Next ==
    \/ Load
    \/ Call
    \/ Sanitize
    \/ Lower
    \/ Match
    \/ Agarwal2019
    \/ MneImport
    \/ MneFilter
    \/ Return

Spec == Init /\ [][Next]_vars

TypeOK ==
    /\ loaded \in {"no", "yes", "ImportError"}
    /\ mneInstalled \in BOOLEAN
    /\ pc \in {"unloaded", "unloadable", "ready", "sanitize", "lower", "match",
               "agarwal2019", "mne", "mne_filter", "return", "done", "raised"}
    /\ signal_in \in Signals
    /\ sampling_rate \in Rates
    /\ eog_signal \in Vectors \cup {None}
    /\ clean \in Vectors \cup {None}
    /\ result \in Vectors \cup {None}
    /\ Len(calls) <= 1
    /\ error.type \in {"None", "ValueError", "ImportError", "ConversionError"}

\* ----------------------------------------------------------------- claims

InTrace(x) == \E i \in DOMAIN trace : trace[i] = x

Entered == pc \notin {"unloaded", "unloadable", "ready"}

WantsAgarwal == lower(method_in) \in {agarwal, agarwal2019}

WantsMne == lower(method_in) = mne

Unrecognized == lower(method_in) \notin {agarwal, agarwal2019, mne}

\* the one call the agarwal2019 preset is to make
AgarwalCall ==
    [fn |-> "signal_filter", signal |-> signal_in.data, sampling_rate |-> sampling_rate,
     params |-> [method |-> "butterworth", order |-> "4", lowcut |-> "None", highcut |-> "10"]]

\* the one call the mne preset is to make
MneCall ==
    [fn |-> "mne.filter.filter_data", signal |-> signal_in.data,
     sampling_rate |-> sampling_rate,
     params |-> [l_freq |-> "1", h_freq |-> "10", filter_length |-> "10s",
                 l_trans_bandwidth |-> "0.5", h_trans_bandwidth |-> "0.5",
                 phase |-> "zero-double", fir_window |-> "hann",
                 fir_design |-> "firwin2", verbose |-> "False"]]

\* C1: a call with a convertible signal and a method that is, lower-cased,
\* none of agarwal, agarwal2019, mne never reaches a preset, calls no filter,
\* returns no value, and leaves with ValueError.
C1_UnrecognizedMethodRaises ==
    (Entered /\ signal_in.convertible /\ Unrecognized) =>
        /\ pc \in {"sanitize", "lower", "match", "raised"}
        /\ calls = <<>>
        /\ result = None
        /\ clean = None
        /\ pc = "raised" => error.type = "ValueError"

C1_Witness ==
    /\ pc = "raised"
    /\ signal_in.convertible
    /\ method_in = foo
    /\ error.type = "ValueError"
    /\ calls = <<>>

\* the branch the current call took at the match, read off its effects
Taken ==
    IF error.type = "ValueError" THEN "raise"
    ELSE IF pc = "agarwal2019" \/ InTrace("signal_filter") THEN "agarwal2019"
    ELSE "mne"

\* C2: once the method has been matched, the branch taken and the filter call
\* made are those of every method string that is equal to the given one after
\* lower-casing; in particular they are those of its lower-cased form.
C2_CaseInsensitive ==
    InTrace("match") =>
        \A m2 \in Methods \cup {lower(method_in)} :
            lower(m2) = lower(method_in) =>
                /\ Taken = SelectBranch(NormalizeMethod(m2))
                /\ Taken = SelectBranch(m2) \/ m2 # lower(m2)
                /\ calls # <<>> =>
                      calls[1].call = IF Taken = "agarwal2019" THEN AgarwalCall ELSE MneCall

C2_Witness ==
    /\ pc = "done"
    /\ method_in = upper(agarwal2019)
    /\ calls # <<>>
    /\ calls[1].call = AgarwalCall

\* C3: with method agarwal or agarwal2019 in any casing, the call makes exactly
\* one filter call, signal_filter(converted signal, sampling_rate, butterworth,
\* order 4, lowcut None, highcut 10), never the MNE filter, and returns what
\* that call returned.
C3_AgarwalPreset ==
    (Entered /\ signal_in.convertible /\ WantsAgarwal) =>
        /\ pc # "raised"
        /\ error = NoError
        /\ Len(calls) <= 1
        /\ \A i \in DOMAIN calls : calls[i].call = AgarwalCall
        /\ pc = "done" => Len(calls) = 1 /\ result = calls[1].ret

C3_Witness ==
    /\ pc = "done"
    /\ method_in = capitalize(agarwal)
    /\ Len(calls) = 1
    /\ calls[1].call = AgarwalCall
    /\ Len(signal_in.data) = MaxLen
    /\ result = calls[1].ret
    /\ result # signal_in.data

\* C4: with method mne in any casing and the MNE package importable, the call
\* makes exactly one filter call, mne.filter.filter_data with the converted
\* signal, the sampling rate and the preset's parameters, never signal_filter,
\* and returns what that call returned.
C4_MnePreset ==
    (Entered /\ signal_in.convertible /\ WantsMne /\ mneInstalled) =>
        /\ pc # "raised"
        /\ error = NoError
        /\ Len(calls) <= 1
        /\ \A i \in DOMAIN calls : calls[i].call = MneCall
        /\ pc = "done" => Len(calls) = 1 /\ result = calls[1].ret

C4_Witness ==
    /\ pc = "done"
    /\ method_in = upper(mne)
    /\ mneInstalled
    /\ Len(calls) = 1
    /\ calls[1].call = MneCall
    /\ Len(signal_in.data) = MaxLen
    /\ result = calls[1].ret

\* C5: with method mne and the MNE package not importable, the call makes no
\* filter call, returns no value, and leaves with an ImportError whose message
\* names 'mne'.
C5_MneMissingRaises ==
    (Entered /\ signal_in.convertible /\ WantsMne /\ ~mneInstalled) =>
        /\ pc \in {"sanitize", "lower", "match", "mne", "raised"}
        /\ calls = <<>>
        /\ result = None
        /\ pc = "raised" =>
              /\ error.type = "ImportError"
              /\ \E a \in DOMAIN error.args : mne \in Quoted(error.args[a])

C5_Witness ==
    /\ pc = "raised"
    /\ method_in = mne
    /\ ~mneInstalled
    /\ error.type = "ImportError"
    /\ calls = <<>>
    /\ result = None

\* C6: the import of mne is attempted only inside a call whose method is mne:
\* loading the module never fails on it, an agarwal call never leaves with an
\* ImportError and returns its filter's value whatever the availability of
\* mne, and an unrecognized method leaves with ValueError, not ImportError.
C6_LazyMneCheck ==
    /\ loaded # "ImportError"
    /\ InTrace("import mne") => WantsMne
    /\ (Entered /\ signal_in.convertible /\ WantsAgarwal) =>
          /\ error.type # "ImportError"
          /\ pc # "raised"
          /\ pc = "done" => calls = <<[call |-> AgarwalCall, ret |-> result]>>
    /\ (Entered /\ signal_in.convertible /\ Unrecognized /\ pc = "raised") =>
          error.type = "ValueError"

C6_Witness ==
    /\ ~mneInstalled
    /\ loaded = "yes"
    /\ pc = "done"
    /\ WantsAgarwal
    /\ calls = <<[call |-> AgarwalCall, ret |-> result]>>

\* C7 as stated: the ValueError message names every selector the dispatcher
\* accepts: agarwal, agarwal2019 and mne.
C7_EverySelectorNamed ==
    error.type = "ValueError" =>
        {agarwal, agarwal2019, mne} \subseteq Quoted(error.args[1])

\* C7 as amended: the ValueError message names agarwal2019 and mne, one
\* selector for each preset the dispatcher can select; every option it names is
\* accepted, and the alias agarwal is accepted without being named.
C7_EveryPresetNamed ==
    error.type = "ValueError" =>
        LET options == Quoted(error.args[1]) \ {method_word} IN
          /\ options = {agarwal2019, mne}
          /\ \A o \in options : SelectBranch(o) # "raise"
          /\ \A s \in {agarwal, agarwal2019, mne} :
                \E o \in options : SelectBranch(o) = SelectBranch(s)

C7_Witness ==
    /\ pc = "raised"
    /\ error.type = "ValueError"
    /\ method_in = upper(brainstorm)
    /\ agarwal \notin Quoted(error.args[1])

\* C8: when a call succeeds and its filter returned a vector as long as the one
\* it was given, the value returned is as long as the input signal: the filter
\* is given the converted signal as it is and its value is returned as it is.
C8_SameLength ==
    (pc = "done" /\ Len(calls) = 1 /\ Len(calls[1].ret) = Len(calls[1].call.signal)) =>
        /\ Len(result) = Len(signal_in.data)
        /\ calls[1].call.signal = signal_in.data
        /\ result = calls[1].ret

C8_Witness ==
    /\ pc = "done"
    /\ Len(signal_in.data) = MaxLen
    /\ Len(result) = MaxLen
    /\ result # signal_in.data
    /\ WantsAgarwal

\* C9: no call reaches the Brainstorm preset: no signal_filter call carries
\* lowcut 1.5 and highcut 15, and the method brainstorm, in any casing, leaves
\* with ValueError without a filter call.
C9_BrainstormUnreachable ==
    /\ \A i \in DOMAIN calls :
          calls[i].call.fn = "signal_filter" =>
              /\ ~(calls[i].call.params.lowcut = "1.5" /\ calls[i].call.params.highcut = "15")
              /\ calls[i].call #
                    _eog_clean_brainstorm(calls[i].call.signal, calls[i].call.sampling_rate)
    /\ (Entered /\ signal_in.convertible /\ lower(method_in) = brainstorm) =>
          /\ pc \in {"sanitize", "lower", "match", "raised"}
          /\ calls = <<>>
          /\ pc = "raised" => error.type = "ValueError"

C9_Witness ==
    /\ pc = "raised"
    /\ method_in = capitalize(brainstorm)
    /\ signal_in.convertible
    /\ error.type = "ValueError"
    /\ calls = <<>>

\* C10: in a call, as_vector runs first, then the lower-casing, then the match,
\* then the filter; a call whose signal cannot be converted leaves with the
\* conversion error before the method is looked at, also when the method is
\* unrecognized, and no filter is called before the match.
C10_Order ==
    /\ \A i \in DOMAIN trace :
          /\ trace[i] = "as_vector" => i = 1
          /\ trace[i] = "lower" => i = 2 /\ trace[1] = "as_vector"
          /\ trace[i] = "match" => i = 3 /\ trace[2] = "lower"
          /\ trace[i] \in {"signal_filter", "mne.filter.filter_data"} =>
                \E j \in 1 .. i - 1 : trace[j] = "match"
    /\ calls # <<>> => InTrace("match")
    /\ (pc = "raised" /\ ~signal_in.convertible) =>
          /\ error.type = "ConversionError"
          /\ trace = <<"as_vector">>
          /\ method = method_in
          /\ calls = <<>>

C10_Witness ==
    /\ pc = "raised"
    /\ ~signal_in.convertible
    /\ Unrecognized
    /\ error.type = "ConversionError"
    /\ trace = <<"as_vector">>

====
